---- MODULE Spec2Model ----
(***************************************************************************)
(* Model of src/app.py: a Flask service whose GET /users handler           *)
(* (list_users) builds a parameterized SELECT from the optional name and   *)
(* email query parameters, runs it on a per-request sqlite3 connection     *)
(* and returns the rows as JSON.  Requests are handled concurrently, one   *)
(* thread per request; the steps of a handler that touch the driver        *)
(* (connect, execute, fetchall, close) are separate atomic actions.        *)
(*                                                                         *)
(* Text is modelled by TLA+ strings, so that the SQL statement is the very *)
(* text the code concatenates, and the store's reading of that text        *)
(* (placeholders, WHERE columns, ORDER BY, LIMIT) is computed from it.     *)
(***************************************************************************)
EXTENDS Integers, Sequences, FiniteSets, TLC

\* ------------------------------------------------------------------ bounds
NumRequests == 2        \* concurrently handled requests (Spec)
MaxId == 2              \* small tables have ids within 1..MaxId
Extra == 2              \* big tables hold RowCap + Extra rows

\* the row cap the spec and the claims speak of (LIMIT 500)
RowCap == 500

Requests == 1..NumRequests

\* ------------------------------------------------------- text operations
\* Optional[str]: None is the empty tuple, a present value v is <<v>>
None == <<>>
Some(v) == <<v>>

\* first position of needle in hay, 0 if it does not occur
Index(hay, needle) ==
    LET n == Len(needle)
        P == {i \in 1..(Len(hay) - n + 1) : SubSeq(hay, i, i + n - 1) = needle}
    IN  IF P = {} THEN 0 ELSE CHOOSE i \in P : \A j \in P : i <= j

Contains(hay, needle) == Index(hay, needle) # 0

StartsWith(hay, prefix) ==
    /\ Len(prefix) <= Len(hay)
    /\ SubSeq(hay, 1, Len(prefix)) = prefix

\* number of '?' characters of a text
CountQ(text) == Cardinality({i \in 1..Len(text) : SubSeq(text, i, i) = "?"})

\* sep.join(parts)
RECURSIVE Join(_, _)
Join(sep, parts) ==
    IF parts = <<>> THEN ""
    ELSE IF Len(parts) = 1 THEN parts[1]
    ELSE parts[1] \o sep \o Join(sep, Tail(parts))

\* ------------------------------------------------------- the request
\* request.args: the query string, a map from the keys it carries to their values
Keys == {"name", "email", "id", "search"}

MkArgs(n, e, i, s) ==
    LET o == [name |-> n, email |-> e, id |-> i, search |-> s]
    IN  [k \in {x \in Keys : o[x] # None} |-> o[k][1]]

NoArgs == MkArgs(None, None, None, None)

\* request.args.get(key): the value, or None when the key is absent
ArgsGet(a, key) == IF key \in DOMAIN a THEN Some(a[key]) ELSE None

\* ------------------------------------------------------- the query builder
SELECT_FROM == "SELECT id, name, email FROM users"
\* faulty variant: the row cap is forgotten
ORDER_LIMIT_NoCap == " ORDER BY id ASC"
ORDER_LIMIT == " ORDER BY id ASC LIMIT 500"
\* faulty variant: the name filter is bound to the wrong column
NAME_CLAUSE_WrongColumn == "email = ?"
NAME_CLAUSE == "name = ?"
EMAIL_CLAUSE == "email = ?"

\* faulty variant: an empty value is taken for a filter
IsFilter_NotNone(v) == v # None

\* the filter test of lines 37 and 40
IsFilter(v) == v # None /\ v[1] # ""

\* faulty variant: the values are formatted into the statement text
WhereClauses_Concat(name, email) ==
    (IF name # None /\ name[1] # "" THEN <<"name = '" \o name[1] \o "'">> ELSE <<>>)
        \o (IF email # None /\ email[1] # "" THEN <<"email = '" \o email[1] \o "'">> ELSE <<>>)

WhereClauses(name, email) ==
    (IF IsFilter(name) THEN <<NAME_CLAUSE>> ELSE <<>>)
        \o (IF IsFilter(email) THEN <<EMAIL_CLAUSE>> ELSE <<>>)

Params(name, email) ==
    (IF IsFilter(name) THEN <<name[1]>> ELSE <<>>)
        \o (IF IsFilter(email) THEN <<email[1]>> ELSE <<>>)

BaseQuery(where_clauses) ==
    SELECT_FROM
        \o (IF where_clauses # <<>> THEN " WHERE " \o Join(" AND ", where_clauses) ELSE "")
        \o ORDER_LIMIT

\* faulty variant: search is read as a partial match on the name
BuildQuery_Search(a) ==
    LET name == ArgsGet(a, "name")
        email == ArgsGet(a, "email")
        search == ArgsGet(a, "search")
        like == IF search # None /\ search[1] # "" THEN <<"LOWER(name) LIKE ?">> ELSE <<>>
        pat == IF search # None /\ search[1] # "" THEN <<"%" \o search[1] \o "%">> ELSE <<>>
    IN  [sql |-> BaseQuery(WhereClauses(name, email) \o like),
         params |-> Params(name, email) \o pat]

\* faulty variant: a key outside the whitelist stands in for a missing name
BuildQuery_AnyKey(a) ==
    LET given == ArgsGet(a, "name")
        name == IF given = None THEN ArgsGet(a, "search") ELSE given
        email == ArgsGet(a, "email")
    IN  [sql |-> BaseQuery(WhereClauses(name, email)), params |-> Params(name, email)]

\* lines 29-48: the statement text and the bound values of a request
BuildQuery(a) ==
    LET name == ArgsGet(a, "name")
        email == ArgsGet(a, "email")
    IN  [sql |-> BaseQuery(WhereClauses(name, email)), params |-> Params(name, email)]

\* ------------------------------------------------------- the store
\* The users table: a function from the ids present to [name, email].
\* What sqlite3 does with a statement text and its bound values:

Digits == "0123456789"

RECURSIVE ParseNat(_)
ParseNat(s) ==
    IF s = "" THEN 0
    ELSE ParseNat(SubSeq(s, 1, Len(s) - 1)) * 10
            + (Index(Digits, SubSeq(s, Len(s), Len(s))) - 1)

\* the LIMIT of a statement, -1 when it has none
LimitOf(sql) ==
    LET p == Index(sql, " LIMIT ")
    IN  IF p = 0 THEN 0 - 1 ELSE ParseNat(SubSeq(sql, p + 7, Len(sql)))

OrderOf(sql) ==
    IF Contains(sql, " ORDER BY id DESC") THEN "desc" ELSE "asc"

FilterCols == {"name", "email"}

\* the columns of the conditions "col = ?" of a statement, in text order
RECURSIVE ByPosition(_, _)
ByPosition(sql, cols) ==
    IF cols = {} THEN <<>>
    ELSE LET c == CHOOSE x \in cols :
                    \A y \in cols : Index(sql, x \o " = ?") <= Index(sql, y \o " = ?")
         IN  <<c>> \o ByPosition(sql, cols \ {c})

WhereCols(sql) ==
    ByPosition(sql, {c \in FilterCols : Contains(sql, " " \o c \o " = ?")})

\* the exceptions of the driver and of the encoder
ERR_OPEN == "OperationalError: unable to open database file"
ERR_STORE == "OperationalError: database is locked"
ERR_SYNTAX == "OperationalError: syntax error"
ERR_BINDINGS == "ProgrammingError: Incorrect number of bindings supplied"
ERR_CLOSED == "ProgrammingError: Cannot operate on a closed database"
ERR_JSON == "TypeError: Object is not JSON serializable"

\* what execute() raises for a statement and its bindings ("ok": nothing)
PrepareError(sql, params) ==
    IF ~StartsWith(sql, SELECT_FROM) THEN ERR_SYNTAX
    ELSE IF CountQ(sql) # Len(params) THEN ERR_BINDINGS
    ELSE IF Len(WhereCols(sql)) # CountQ(sql) THEN ERR_SYNTAX
    ELSE "ok"

SetMax(S) == CHOOSE x \in S : \A y \in S : y <= x

SortAsc(S) ==
    IF S = {} THEN <<>>
    ELSE SelectSeq([i \in 1..SetMax(S) |-> i], LAMBDA i : i \in S)

Reverse(q) == [k \in 1..Len(q) |-> q[Len(q) + 1 - k]]

\* the rows of the select list (id, name, email), each a tuple in that order
RunQuery(table, sql, params) ==
    LET cols == WhereCols(sql)
        hit == {i \in DOMAIN table :
                    \A k \in 1..Len(cols) : table[i][cols[k]] = params[k]}
        asc == SortAsc(hit)
        ord == IF OrderOf(sql) = "desc" THEN Reverse(asc) ELSE asc
        lim == LimitOf(sql)
        cut == IF lim < 0 \/ Len(ord) <= lim THEN ord ELSE SubSeq(ord, 1, lim)
    IN  [k \in 1..Len(cut) |-> <<cut[k], table[cut[k]].name, table[cut[k]].email>>]

\* sqlite3.Row: r["col"] is the value at the column's place in the select list
SelectCols == <<"id", "name", "email">>
RowGet(row, col) == row[CHOOSE k \in 1..Len(SelectCols) : SelectCols[k] = col]

\* line 54: one dict per row
RowToUser(r) ==
    [id |-> RowGet(r, "id"), name |-> RowGet(r, "name"), email |-> RowGet(r, "email")]

\* line 55: jsonify(users), 200
Jsonify(users) == [kind |-> "returned", status |-> 200, json |-> users, exc |-> "none"]

Raised(e) == [kind |-> "raised", status |-> 0, json |-> <<>>, exc |-> e]

NoOutcome == [kind |-> "none", status |-> 0, json |-> <<>>, exc |-> "none"]

\* ------------------------------------------------------- inputs
Alice == [name |-> "alice", email |-> "a@x.org"]
Bob == [name |-> "bob", email |-> "b@x.org"]

RowValues ==
    {Alice, Bob, [name |-> "Alice", email |-> "a@x.org"],
     [name |-> "alice", email |-> "b@x.org"]}

\* every table with ids within 1..MaxId
SmallTables == UNION {[S -> RowValues] : S \in SUBSET (1..MaxId)}

\* n rows named alice, but for the row of id odd (if any)
BigTable(n, odd) == [i \in 1..n |-> IF i = odd THEN Bob ELSE Alice]

BigTables ==
    {BigTable(RowCap, 0), BigTable(RowCap + Extra, 0), BigTable(RowCap + Extra, 2)}

Opt(values) == {None} \cup {Some(v) : v \in values}

AllQueries ==
    {MkArgs(n, e, i, s) :
        n \in Opt({"", "alice", "Alice", "x' OR '1'='1'; DROP TABLE users; -- ?"}),
        e \in Opt({"", "a@x.org", "' OR 1=1 --"}),
        i \in Opt({"abc"}),
        s \in Opt({"ali"})}

PairQueries ==
    {MkArgs(n, e, i, s) :
        n \in Opt({"", "alice"}), e \in Opt({"a@x.org"}),
        i \in Opt({"abc"}), s \in Opt({"ali"})}

PairTables == {[i \in {1, 3} |-> IF i = 1 THEN Alice ELSE Bob]}

ConcQueries == {NoArgs, MkArgs(Some("alice"), None, None, None)}

ConcTables == {[i \in {1, 2} |-> IF i = 1 THEN Alice ELSE Bob]}

\* ------------------------------------------------------- state
VARIABLES
    db,          \* the users table of the database at DB_PATH
    conns,       \* every connection opened so far: <<[open, opened_by, misused]>>
    calls,       \* per request, the driver calls it made: [op, h, res]
    pc,          \* per request, where its handler stands
    args,        \* per request, request.args
    base_query,  \* per request, the statement text
    params,      \* per request, the bound values
    conn,        \* per request, its connection handle (0: none yet)
    rows,        \* per request, the rows fetched
    pending,     \* per request, what the try block ended with
    outcome      \* per request, what the handler returned or raised

vars == <<db, conns, calls, pc, args, base_query, params, conn, rows, pending, outcome>>

InitWith(tables) ==
    /\ db \in tables
    /\ conns = <<>>
    /\ calls = [r \in Requests |-> <<>>]
    /\ pc = [r \in Requests |-> "idle"]
    /\ args = [r \in Requests |-> NoArgs]
    /\ base_query = [r \in Requests |-> ""]
    /\ params = [r \in Requests |-> <<>>]
    /\ conn = [r \in Requests |-> 0]
    /\ rows = [r \in Requests |-> <<>>]
    /\ pending = [r \in Requests |-> NoOutcome]
    /\ outcome = [r \in Requests |-> NoOutcome]

Call(r, op, h, res) ==
    calls' = [calls EXCEPT ![r] = Append(@, [op |-> op, h |-> h, res |-> res])]

\* the try block raises e: control goes to the finally clause
Throw(r, e) ==
    /\ pending' = [pending EXCEPT ![r] = Raised(e)]
    /\ pc' = [pc EXCEPT ![r] = "finally"]

\* whether int(text) succeeds: an optional sign, then digits
IsInteger(text) ==
    LET body == IF text # "" /\ SubSeq(text, 1, 1) \in {"+", "-"}
                THEN SubSeq(text, 2, Len(text)) ELSE text
    IN  /\ body # ""
        /\ \A i \in 1..Len(body) : Contains(Digits, SubSeq(body, i, i))

\* faulty variant: an id that is no integer is rejected with status 400
Start_ValidateId(r, queries) ==
    /\ pc[r] = "idle"
    /\ \E a \in queries :
        /\ args' = [args EXCEPT ![r] = a]
        /\ IF "id" \in DOMAIN a /\ ~IsInteger(a["id"])
           THEN /\ outcome' = [outcome EXCEPT ![r] =
                        [kind |-> "returned", status |-> 400,
                         json |-> <<[error |-> "id must be an integer"]>>, exc |-> "none"]]
                /\ pc' = [pc EXCEPT ![r] = "done"]
                /\ UNCHANGED <<base_query, params>>
           ELSE /\ base_query' = [base_query EXCEPT ![r] = BuildQuery(a).sql]
                /\ params' = [params EXCEPT ![r] = BuildQuery(a).params]
                /\ pc' = [pc EXCEPT ![r] = "built"]
                /\ UNCHANGED outcome
    /\ UNCHANGED <<db, conns, calls, conn, rows, pending>>

\* lines 29-48: a request arrives, its filters are read and its query is built
Start(r, queries) ==
    /\ pc[r] = "idle"
    /\ \E a \in queries :
        /\ args' = [args EXCEPT ![r] = a]
        /\ base_query' = [base_query EXCEPT ![r] = BuildQuery(a).sql]
        /\ params' = [params EXCEPT ![r] = BuildQuery(a).params]
    /\ pc' = [pc EXCEPT ![r] = "built"]
    /\ UNCHANGED <<db, conns, calls, conn, rows, pending, outcome>>

\* faulty variant: one connection is kept and handed to every request while it is open
GetDb_Shared(r) ==
    /\ pc[r] = "built"
    /\ LET live == {h \in 1..Len(conns) : conns[h].open}
       IN  IF live # {}
           THEN /\ conn' = [conn EXCEPT ![r] = CHOOSE h \in live : TRUE]
                /\ Call(r, "connect", conn'[r], "ok")
                /\ UNCHANGED conns
           ELSE /\ conns' = Append(conns, [open |-> TRUE, opened_by |-> r, misused |-> FALSE])
                /\ conn' = [conn EXCEPT ![r] = Len(conns) + 1]
                /\ Call(r, "connect", Len(conns) + 1, "ok")
    /\ pc' = [pc EXCEPT ![r] = "connected"]
    /\ UNCHANGED <<db, args, base_query, params, rows, pending, outcome>>

\* line 50, lines 13-16: sqlite3.connect opens a new connection, or raises
GetDb(r) ==
    /\ pc[r] = "built"
    /\ \/ /\ conns' = Append(conns, [open |-> TRUE, opened_by |-> r, misused |-> FALSE])
          /\ conn' = [conn EXCEPT ![r] = Len(conns) + 1]
          /\ Call(r, "connect", Len(conns) + 1, "ok")
          /\ pc' = [pc EXCEPT ![r] = "connected"]
          /\ UNCHANGED outcome
       \/ /\ Call(r, "connect", 0, ERR_OPEN)
          /\ outcome' = [outcome EXCEPT ![r] = Raised(ERR_OPEN)]
          /\ pc' = [pc EXCEPT ![r] = "done"]
          /\ UNCHANGED <<conns, conn>>
    /\ UNCHANGED <<db, args, base_query, params, rows, pending>>

\* line 52: conn.execute(base_query, params)
Execute(r) ==
    /\ pc[r] = "connected"
    /\ LET h == conn[r]
           e == PrepareError(base_query[r], params[r])
       IN  IF ~conns[h].open
           THEN /\ conns' = [conns EXCEPT ![h].misused = TRUE]
                /\ Call(r, "execute", h, ERR_CLOSED)
                /\ Throw(r, ERR_CLOSED)
           ELSE /\ UNCHANGED conns
                /\ IF e # "ok"
                   THEN Call(r, "execute", h, e) /\ Throw(r, e)
                   ELSE \/ /\ Call(r, "execute", h, "ok")
                           /\ pc' = [pc EXCEPT ![r] = "executed"]
                           /\ UNCHANGED pending
                        \/ /\ Call(r, "execute", h, ERR_STORE)
                           /\ Throw(r, ERR_STORE)
    /\ UNCHANGED <<db, args, base_query, params, conn, rows, outcome>>

\* line 53: cur.fetchall()
Fetchall(r) ==
    /\ pc[r] = "executed"
    /\ LET h == conn[r]
       IN  IF ~conns[h].open
           THEN /\ conns' = [conns EXCEPT ![h].misused = TRUE]
                /\ Call(r, "fetchall", h, ERR_CLOSED)
                /\ Throw(r, ERR_CLOSED)
                /\ UNCHANGED rows
           ELSE /\ UNCHANGED conns
                /\ \/ /\ Call(r, "fetchall", h, "ok")
                      /\ rows' = [rows EXCEPT ![r] = RunQuery(db, base_query[r], params[r])]
                      /\ pc' = [pc EXCEPT ![r] = "fetched"]
                      /\ UNCHANGED pending
                   \/ /\ Call(r, "fetchall", h, ERR_STORE)
                      /\ Throw(r, ERR_STORE)
                      /\ UNCHANGED rows
    /\ UNCHANGED <<db, args, base_query, params, conn, outcome>>

\* lines 54-55: the rows become dicts and the response is encoded, or the
\* encoder raises (a value json cannot serialize)
Respond(r) ==
    /\ pc[r] = "fetched"
    /\ LET users == [k \in 1..Len(rows[r]) |-> RowToUser(rows[r][k])]
       IN  \/ pending' = [pending EXCEPT ![r] = Jsonify(users)]
           \/ pending' = [pending EXCEPT ![r] = Raised(ERR_JSON)]
    /\ pc' = [pc EXCEPT ![r] = "finally"]
    /\ UNCHANGED <<db, conns, calls, args, base_query, params, conn, rows, outcome>>

\* faulty variant: the connection is closed on the success path only
Close_OnSuccessOnly(r) ==
    /\ pc[r] = "finally"
    /\ IF pending[r].kind = "raised"
       THEN UNCHANGED <<conns, calls>>
       ELSE /\ conns' = [conns EXCEPT ![conn[r]].open = FALSE]
            /\ Call(r, "close", conn[r], "ok")
    /\ outcome' = [outcome EXCEPT ![r] = pending[r]]
    /\ pc' = [pc EXCEPT ![r] = "done"]
    /\ UNCHANGED <<db, args, base_query, params, conn, rows, pending>>

\* lines 56-57: finally: conn.close(), then the return or the raise goes on
Close(r) ==
    /\ pc[r] = "finally"
    /\ conns' = [conns EXCEPT ![conn[r]].open = FALSE]
    /\ Call(r, "close", conn[r], "ok")
    /\ outcome' = [outcome EXCEPT ![r] = pending[r]]
    /\ pc' = [pc EXCEPT ![r] = "done"]
    /\ UNCHANGED <<db, args, base_query, params, conn, rows, pending>>

\* ------------------------------------------------------- specifications
\* concurrently handled requests
Init == InitWith(ConcTables)

Next ==
    \E r \in Requests :
        \/ Start(r, ConcQueries)
        \/ GetDb(r)
        \/ Execute(r)
        \/ Fetchall(r)
        \/ Respond(r)
        \/ Close(r)

Spec == Init /\ [][Next]_vars

\* one request, over every query string and every table of the bounds
InitOne == InitWith(SmallTables) \/ InitWith(BigTables)

NextOne ==
    \/ Start(1, AllQueries)
    \/ GetDb(1)
    \/ Execute(1)
    \/ Fetchall(1)
    \/ Respond(1)
    \/ Close(1)

SpecOne == InitOne /\ [][NextOne]_vars

\* two requests side by side
InitPair == InitWith(PairTables)

NextPair ==
    \E r \in {1, 2} :
        \/ Start(r, PairQueries)
        \/ GetDb(r)
        \/ Execute(r)
        \/ Fetchall(r)
        \/ Respond(r)
        \/ Close(r)

SpecPair == InitPair /\ [][NextPair]_vars

TypeOK ==
    /\ pc \in [Requests -> {"idle", "built", "connected", "executed", "fetched", "finally", "done"}]
    /\ \A r \in Requests : conn[r] \in 0..Len(conns)

\* ------------------------------------------------------- claims
EnvFaults == {ERR_OPEN, ERR_STORE, ERR_JSON}

Finished(r) == pc[r] = "done"

\* request r carries a non-empty value for key
HasFilter(r, key) == key \in DOMAIN args[r] /\ args[r][key] # ""

\* the ids of the rows the name and email filters of request r select
Selected(r) ==
    {i \in DOMAIN db :
        /\ HasFilter(r, "name") => db[i].name = args[r]["name"]
        /\ HasFilter(r, "email") => db[i].email = args[r]["email"]}

Min(a, b) == IF a <= b THEN a ELSE b

\* json is the rows of ids S, the RowCap of lowest id at most, in ascending
\* id order, each with exactly the keys id, name and email of its row
IsAnswer(json, S) ==
    LET n == Len(json)
        ids == {json[k].id : k \in 1..n}
    IN  /\ n = Min(Cardinality(S), RowCap)
        /\ \A k \in 1..n :
            /\ DOMAIN json[k] = {"id", "name", "email"}
            /\ json[k].id \in S
            /\ json[k].name = db[json[k].id].name
            /\ json[k].email = db[json[k].id].email
        /\ \A k \in 1..(n - 1) : json[k].id < json[k + 1].id
        /\ n > 0 => \A i \in S : i <= json[n].id => i \in ids

\* once finished, r returned 200 with the rows of S, unless the store or the
\* encoder failed under it
Answered(r, S) ==
    Finished(r) =>
        IF outcome[r].kind = "raised"
        THEN outcome[r].exc \in EnvFaults
        ELSE /\ outcome[r].kind = "returned"
             /\ outcome[r].status = 200
             /\ IsAnswer(outcome[r].json, S)

Made(r, op) == \E k \in 1..Len(calls[r]) : calls[r][k].op = op

\* r's fetchall came back with the rows
Fetched(r) ==
    \E k \in 1..Len(calls[r]) : calls[r][k].op = "fetchall" /\ calls[r][k].res = "ok"

FixedStatements ==
    {"SELECT id, name, email FROM users ORDER BY id ASC LIMIT 500",
     "SELECT id, name, email FROM users WHERE name = ? ORDER BY id ASC LIMIT 500",
     "SELECT id, name, email FROM users WHERE email = ? ORDER BY id ASC LIMIT 500",
     "SELECT id, name, email FROM users WHERE name = ? AND email = ? ORDER BY id ASC LIMIT 500"}

\* C1: whatever the name and email values (quotes, semicolons, '?', SQL
\* keywords included), the statement text given to execute is one of four
\* fixed strings; a non-empty filter value is an element of the bound values
\* and no part of the text.
C1_SqlTextIsFixed ==
    \A r \in Requests :
        pc[r] # "idle" =>
            /\ base_query[r] \in FixedStatements
            /\ \A key \in {"name", "email"} :
                HasFilter(r, key) =>
                    /\ \E k \in 1..Len(params[r]) : params[r][k] = args[r][key]
                    /\ ~Contains(base_query[r], args[r][key])

C1_Witness ==
    \E r \in Requests :
        /\ pc[r] = "executed"
        /\ HasFilter(r, "name") /\ args[r]["name"] = "x' OR '1'='1'; DROP TABLE users; -- ?"
        /\ HasFilter(r, "email") /\ args[r]["email"] = "' OR 1=1 --"

\* C2: once a request has returned or raised, every connection it opened is
\* closed, and no connection is ever used after it was closed.
C2_ConnectionReleased ==
    /\ \A h \in 1..Len(conns) :
        /\ ~conns[h].misused
        /\ Finished(conns[h].opened_by) => ~conns[h].open
    /\ \A r \in Requests :
        /\ Finished(r) /\ conn[r] # 0 =>
            /\ ~conns[conn[r]].open
            /\ calls[r][Len(calls[r])].op = "close"
        /\ \A k \in 1..Len(calls[r]) :
            calls[r][k].op = "close" => k = Len(calls[r])

C2_Witness ==
    \E r \in Requests :
        /\ Finished(r)
        /\ outcome[r].kind = "raised"
        /\ conn[r] # 0
        /\ ~conns[conn[r]].open

\* C3: when the store fails under a request, the handler returns status 500
\* with a generic JSON error payload that carries no exception text.
C3_StoreFailureReturns500 ==
    \A r \in Requests :
        (Finished(r) /\ \E k \in 1..Len(calls[r]) : calls[r][k].res \in {ERR_OPEN, ERR_STORE}) =>
            /\ outcome[r].kind = "returned"
            /\ outcome[r].status = 500
            /\ outcome[r].exc = "none"

\* C4 as stated: a request whose id is no integer is answered 400 and nothing
\* is built, opened or executed for it.
C4_BadIdRejected ==
    \A r \in Requests :
        ("id" \in DOMAIN args[r] /\ ~IsInteger(args[r]["id"])
                /\ Finished(r) /\ outcome[r].kind = "returned") =>
            /\ outcome[r].status = 400
            /\ calls[r] = <<>>

\* C4 amended: id is no key this code reads. A request whose id is no
\* integer is never answered 400: its query is built from name and email
\* alone, a connection is opened and the statement executed, and it returns
\* 200 with the rows its name and email filters select unless the store or
\* the encoder fails.
C4_BadIdIgnored ==
    \A r \in Requests :
        ("id" \in DOMAIN args[r] /\ ~IsInteger(args[r]["id"])) =>
            /\ outcome[r].status # 400
            /\ Finished(r) /\ outcome[r].kind = "returned" => Made(r, "execute")
            /\ Answered(r, Selected(r))

C4_Witness ==
    \E r \in Requests :
        /\ "id" \in DOMAIN args[r] /\ args[r]["id"] = "abc"
        /\ Finished(r)
        /\ outcome[r].status = 200
        /\ Made(r, "execute")
        /\ Len(outcome[r].json) > 0

\* C5: with a non-empty name v (and no email filter) the request returns 200
\* with exactly the rows whose name equals v, case-sensitively, the first 500
\* in ascending id order; the same for email; and no returned row differs
\* from a filter given.
C5_ExactMatch ==
    \A r \in Requests :
        /\ (HasFilter(r, "name") /\ ~HasFilter(r, "email")) =>
            Answered(r, {i \in DOMAIN db : db[i].name = args[r]["name"]})
        /\ (HasFilter(r, "email") /\ ~HasFilter(r, "name")) =>
            Answered(r, {i \in DOMAIN db : db[i].email = args[r]["email"]})
        /\ (Finished(r) /\ outcome[r].kind = "returned") =>
            \A k \in 1..Len(outcome[r].json) :
                /\ HasFilter(r, "name") => outcome[r].json[k].name = args[r]["name"]
                /\ HasFilter(r, "email") => outcome[r].json[k].email = args[r]["email"]

C5_Witness ==
    \E r \in Requests :
        /\ Finished(r) /\ outcome[r].kind = "returned"
        /\ HasFilter(r, "name") /\ args[r]["name"] = "alice" /\ ~HasFilter(r, "email")
        /\ Cardinality({i \in DOMAIN db : db[i].name = "alice"}) > RowCap
        /\ \E i \in DOMAIN db : db[i].name # "alice"
        /\ Len(outcome[r].json) = RowCap

\* C6: with no query parameters the request returns 200 with every row when
\* the table has at most 500, and the 500 rows of lowest id otherwise, in
\* ascending id order, each record with exactly the keys id, name, email.
C6_NoFilterAllRows ==
    \A r \in Requests :
        (pc[r] # "idle" /\ args[r] = NoArgs) =>
            /\ Answered(r, DOMAIN db)
            /\ (Finished(r) /\ outcome[r].kind = "returned") =>
                /\ Len(outcome[r].json) <= RowCap
                /\ Cardinality(DOMAIN db) <= RowCap =>
                    {outcome[r].json[k].id : k \in 1..Len(outcome[r].json)} = DOMAIN db

C6_Witness ==
    \E r \in Requests :
        /\ Finished(r) /\ outcome[r].kind = "returned"
        /\ args[r] = NoArgs
        /\ Cardinality(DOMAIN db) > RowCap
        /\ Len(outcome[r].json) = RowCap

\* text with its upper-case ASCII letters in lower case
RECURSIVE Lower(_)
Lower(text) ==
    IF text = "" THEN ""
    ELSE LET c == SubSeq(text, 1, 1)
             u == Index("ABCDEFGHIJKLMNOPQRSTUVWXYZ", c)
         IN  (IF u = 0 THEN c ELSE SubSeq("abcdefghijklmnopqrstuvwxyz", u, u))
                \o Lower(SubSeq(text, 2, Len(text)))

\* C7 as stated: with a non-empty search s only rows whose name contains s
\* (in any letter case) are returned.
C7_SearchFilters ==
    \A r \in Requests :
        (HasFilter(r, "search") /\ Finished(r) /\ outcome[r].kind = "returned") =>
            \A k \in 1..Len(outcome[r].json) :
                Contains(Lower(outcome[r].json[k].name), Lower(args[r]["search"]))

\* C7 amended: search is no key this code reads. A request with a non-empty
\* search returns the rows its name and email filters alone select (every
\* row, up to the cap, when neither is given), whether or not their names
\* contain the search text.
C7_SearchIgnored ==
    \A r \in Requests :
        HasFilter(r, "search") =>
            /\ pc[r] # "idle" => ~Contains(base_query[r], "LIKE")
            /\ Answered(r, Selected(r))

C7_Witness ==
    \E r \in Requests :
        /\ HasFilter(r, "search") /\ args[r]["search"] = "ali"
        /\ Finished(r) /\ outcome[r].kind = "returned"
        /\ \E k \in 1..Len(outcome[r].json) : outcome[r].json[k].name = "alice"
        /\ \E k \in 1..Len(outcome[r].json) :
                ~Contains(Lower(outcome[r].json[k].name), "ali")

\* C8: two requests that agree on name and email have the same statement
\* text, the same bound values and, on the same store, the same rows and
\* response, whatever other keys they carry.
C8_OnlyWhitelistedKeys ==
    \A r1, r2 \in Requests :
        (/\ pc[r1] # "idle" /\ pc[r2] # "idle"
         /\ ArgsGet(args[r1], "name") = ArgsGet(args[r2], "name")
         /\ ArgsGet(args[r1], "email") = ArgsGet(args[r2], "email")) =>
            /\ base_query[r1] = base_query[r2]
            /\ params[r1] = params[r2]
            /\ (Fetched(r1) /\ Fetched(r2)) => rows[r1] = rows[r2]
            /\ (Finished(r1) /\ outcome[r1].kind = "returned"
                /\ Finished(r2) /\ outcome[r2].kind = "returned") =>
                outcome[r1] = outcome[r2]

C8_Witness ==
    /\ Finished(1) /\ outcome[1].kind = "returned"
    /\ Finished(2) /\ outcome[2].kind = "returned"
    /\ HasFilter(1, "name")
    /\ ArgsGet(args[1], "name") = ArgsGet(args[2], "name")
    /\ ArgsGet(args[1], "email") = ArgsGet(args[2], "email")
    /\ DOMAIN args[1] = {"name"}
    /\ {"id", "search"} \subseteq DOMAIN args[2]
    /\ Len(outcome[1].json) > 0

\* C9: one clause per non-empty filter and none for an absent or empty one,
\* name before email; as many '?' in the text as bound values; the i-th
\* bound value is that of the i-th clause; clauses joined by AND; WHERE
\* present exactly when a clause is.
C9_ClausesMatchParams ==
    \A r \in Requests :
        pc[r] # "idle" =>
            LET n == HasFilter(r, "name")
                e == HasFilter(r, "email")
                sql == base_query[r]
                count == (IF n THEN 1 ELSE 0) + (IF e THEN 1 ELSE 0)
            IN  /\ CountQ(sql) = Len(params[r])
                /\ Len(params[r]) = count
                /\ Contains(sql, "name = ?") <=> n
                /\ Contains(sql, "email = ?") <=> e
                /\ n => params[r][1] = args[r]["name"]
                /\ e => params[r][count] = args[r]["email"]
                /\ (n /\ e) => Contains(sql, " WHERE name = ? AND email = ? ")
                /\ Contains(sql, " AND ") <=> (n /\ e)
                /\ Contains(sql, " WHERE ") <=> (n \/ e)

C9_Witness ==
    \E r \in Requests :
        /\ pc[r] = "executed"
        /\ "name" \in DOMAIN args[r] /\ args[r]["name"] = ""
        /\ HasFilter(r, "email")
        /\ Len(params[r]) = 1

\* C10: under any interleaving each request opens its own connection, every
\* driver call on a connection is made by the request that opened it, no two
\* requests hold the same connection, and a request executes one statement.
C10_ConnectionOwned ==
    /\ \A r \in Requests :
        /\ \A k \in 1..Len(calls[r]) :
            calls[r][k].h # 0 => conns[calls[r][k].h].opened_by = r
        /\ conn[r] # 0 => conns[conn[r]].opened_by = r
        /\ Cardinality({k \in 1..Len(calls[r]) : calls[r][k].op = "connect"}) <= 1
        /\ Cardinality({k \in 1..Len(calls[r]) : calls[r][k].op = "execute"}) <= 1
        /\ (Finished(r) /\ outcome[r].kind = "returned") =>
            Cardinality({k \in 1..Len(calls[r]) : calls[r][k].op = "execute"}) = 1
    /\ \A r1, r2 \in Requests :
        (r1 # r2 /\ conn[r1] # 0) => conn[r1] # conn[r2]

C10_Witness ==
    \E r1, r2 \in Requests :
        /\ r1 # r2
        /\ pc[r1] = "executed" /\ pc[r2] = "fetched"
        /\ conn[r1] # conn[r2]
        /\ conns[conn[r1]].open /\ conns[conn[r2]].open

====
